---- MODULE Spec2Model ----
(***************************************************************************)
(* dumbcas: the content addressed store (casTable), its consistency flag,  *)
(* the garbage collector (gcRun.main), the command entry point             *)
(* (CommonFlag), and the parts of the repository they call: the trash, the *)
(* node store, LoadEntry and the fsck command.                             *)
(*                                                                         *)
(* Strings are sequences of one-character strings, so that the regular     *)
(* expressions of the code are computed on them.  A live path under casDir *)
(* is <<name>> (an entry of casDir itself) or <<shard, item>>.             *)
(***************************************************************************)
EXTENDS Integers, Sequences, FiniteSets, TLC

\* ------------------------------------------------------------ constants

\* const hashLength = 40
hashLength == 40

\* const splitAt = 3
splitAt == 3

\* Bound: the number of operations of one behaviour.
MaxSteps == 3

\* ------------------------------------------------------------- strings

Rep(c, n) == [i \in 1..n |-> c]

HexDigits == <<"0", "1", "2", "3", "4", "5", "6", "7", "8", "9", "a", "b", "c", "d", "e", "f">>

\* The character class [a-f0-9].
HexLower == {HexDigits[i] : i \in 1..16}

\* const needFsckName = "need_fsck"
needFsckName == <<"n", "e", "e", "d", "_", "f", "s", "c", "k">>

\* The name of the trash directory inside casDir (Enumerate skips it).
TrashName == <<"t", "r", "a", "s", "h">>

\* A regular expression ^[a-f0-9]{n}$ applied to s.
MatchHex(s, n) == Len(s) = n /\ \A i \in 1..Len(s) : s[i] \in HexLower

\* validPath with the pattern ^(.{40})$: the length alone is checked.
validPathLengthOnly(hash) == Len(hash) = hashLength

\* casTable.validPath: ^([a-f0-9]{40})$
validPath(hash) == MatchHex(hash, hashLength)

\* rePrefix compiled with the length of a whole hash: no shard name matches.
rePrefixWholeHash(name) == MatchHex(name, hashLength)

\* rePrefix of Enumerate: ^[a-f0-9]{prefixLength}$
rePrefix(name) == MatchHex(name, splitAt)

\* reRest with the prefix not subtracted: ^[a-f0-9]{hashLength}$.
reRestWholeHash(name) == MatchHex(name, hashLength)

\* reRest of Enumerate: ^[a-f0-9]{hashLength-prefixLength}$
reRest(name) == MatchHex(name, hashLength - splitAt)

\* casTable.filePath: "" for an invalid hash, else casDir/hash[:3]/hash[3:],
\* given relative to casDir (casDir is absolute, MakeCasTable checks it).
filePath(hash) ==
  IF ~validPath(hash) THEN <<>>
  ELSE <<SubSeq(hash, 1, splitAt), SubSeq(hash, splitAt + 1, Len(hash))>>

\* ------------------------------------------------------------- digests

\* The contents the callers store: "content1", "content2" and two
\* serialized Entry trees, as short byte sequences.
Content1 == <<1, 2>>
Content2 == <<3, 4>>
TreeBlob1 == <<5, 6>>
TreeBlob2 == <<7, 8>>
Contents == {Content1, Content2, TreeBlob1, TreeBlob2}

\* crypto/sha1 as a collision-free table over the contents: the 20 bytes of
\* the sum.  Content1 and Content2 fall in one shard, the trees in another.
Sha1Sum(content) ==
  LET seed == CASE content = Content1 -> <<171, 193>>
                [] content = Content2 -> <<171, 194>>
                [] content = TreeBlob1 -> <<18, 52>>
                [] content = TreeBlob2 -> <<18, 53>>
                [] OTHER -> <<218, (57 + Len(content) + (IF content = <<>> THEN 0 ELSE content[1])) % 256>>
  IN [i \in 1..20 |-> IF i <= 2 THEN seed[i] ELSE (seed[2] + 16 * i) % 256]

\* hex.EncodeToString: two lower-case hex digits per byte.
HexEncode(bytes) ==
  [i \in 1..(2 * Len(bytes)) |->
     LET b == bytes[(i + 1) \div 2]
     IN IF i % 2 = 1 THEN HexDigits[(b \div 16) + 1] ELSE HexDigits[(b % 16) + 1]]

\* sha1Bytes(content)
sha1Bytes(content) == HexEncode(Sha1Sum(content))

\* ---------------------------------------------------------------- state

VARIABLES
  live,        \* the files under casDir: path -> bytes
  trash,       \* the payloads moved to the trash of casDir
  needFsck,    \* whether casDir/need_fsck exists
  nodes,       \* the records of the node store
  nodesTrash,  \* the records moved to the trash of the node store
  last,        \* the last operation: its arguments, its results, the flag before it
  steps,       \* the number of operations so far
  calls,       \* the AddEntry calls in progress, one per goroutine
  scan,        \* the Enumerate in progress: its goroutine, its channel, its consumer
  root         \* rootDir: whether casDir is there, its shard directories, the table

vars == <<live, trash, needFsck, nodes, nodesTrash, last, steps, calls, scan, root>>

\* The stores as one value: the operations below take it and return it.
World == [live |-> live, trash |-> trash, needFsck |-> needFsck,
          nodes |-> nodes, nodesTrash |-> nodesTrash]

NoFiles == [p \in {} |-> <<>>]

Without(f, p) == [q \in (DOMAIN f) \ {p} |-> f[q]]

With(f, p, v) == [q \in (DOMAIN f) \cup {p} |-> IF q = p THEN v ELSE f[q]]

\* ---------------------------------------------------------------- trash

\* Trash.Move(relPath): the path leaves the live tree and its payload is kept
\* in the trash; it fails when nothing is at the path.
TrashMove(st, relPath) ==
  IF relPath = <<needFsckName>> /\ st.needFsck
  THEN [st |-> [st EXCEPT !.needFsck = FALSE,
                          !.trash = @ \cup {[path |-> relPath, data |-> <<>>]}],
        err |-> ""]
  ELSE IF relPath \in DOMAIN st.live
  THEN [st |-> [st EXCEPT !.live = Without(@, relPath),
                          !.trash = @ \cup {[path |-> relPath, data |-> st.live[relPath]]}],
        err |-> ""]
  ELSE [st |-> st, err |-> "notexist"]

\* ------------------------------------------------------ consistency flag

\* casTable.NeedFsck: creates casDir/need_fsck.
NeedFsck(st) == [st EXCEPT !.needFsck = TRUE]

\* casTable.WarnIfFsckIsNeeded: whether casDir/need_fsck can be opened.
WarnIfFsckIsNeeded(st) == st.needFsck

\* SetFsckBit whose assignment is lost.
SetFsckBitDropped(st) == st

\* SetFsckBit
SetFsckBit(st) == [st EXCEPT !.needFsck = TRUE]

\* GetFsckBit
GetFsckBit(st) == st.needFsck

\* ClearFsckBit assigning true.
ClearFsckBitSets(st) == [st EXCEPT !.needFsck = TRUE]

\* ClearFsckBit
ClearFsckBit(st) == [st EXCEPT !.needFsck = FALSE]

\* ------------------------------------------------------------- casTable

\* AddEntry opening the file without O_EXCL: an existing file is written over.
AddEntryNoExcl(st, source, hash, ncopied) ==
  LET dst == filePath(hash)
  IN IF dst = <<>> THEN [st |-> st, err |-> "open"]
     ELSE [st |-> [st EXCEPT !.live = With(@, dst, SubSeq(source, 1, ncopied))],
           err |-> IF ncopied < Len(source) THEN "copy" ELSE ""]

\* casTable.AddEntry(source, hash).  ncopied is the number of bytes io.Copy
\* wrote before the source failed (all of them when it did not fail).
AddEntry(st, source, hash, ncopied) ==
  LET dst == filePath(hash)
  IN IF dst = <<>> THEN [st |-> st, err |-> "open"]
     ELSE IF dst \in DOMAIN st.live THEN [st |-> st, err |-> "exist"]
     ELSE [st |-> [st EXCEPT !.live = With(@, dst, SubSeq(source, 1, ncopied))],
           err |-> IF ncopied < Len(source) THEN "copy" ELSE ""]

\* AddBytes(c, data): the hash, and AddEntry's result under it.
AddBytes(st, data, ncopied) ==
  LET hash == sha1Bytes(data)
      r == AddEntry(st, data, hash, ncopied)
  IN [hash |-> hash, st |-> r.st, err |-> r.err]

\* What the live tree holds at a path that is a directory, not a file.
Directory == <<-1>>

\* casTable.Open(hash), followed by reading the handle to its end: os.Open
\* opens a directory as it opens a file, and the read of it fails.
Open(st, hash) ==
  LET fp == filePath(hash)
  IN IF fp = <<>> THEN [err |-> "invalid", data |-> <<>>]
     ELSE IF fp \notin DOMAIN st.live THEN [err |-> "notexist", data |-> <<>>]
     ELSE IF st.live[fp] = Directory THEN [err |-> "isdir", data |-> <<>>]
     ELSE [err |-> "", data |-> st.live[fp]]

\* Remove dropping the error of trash.Move.
RemoveIgnoresMove(st, hash) ==
  IF ~validPath(hash) THEN [st |-> st, err |-> "invalid"]
  ELSE [st |-> TrashMove(st, <<SubSeq(hash, 1, splitAt), SubSeq(hash, splitAt + 1, Len(hash))>>).st,
        err |-> ""]

\* Remove deleting the file (os.Remove) where the code moves it to the trash.
RemoveDeletes(st, hash) ==
  LET fp == filePath(hash)
  IN IF fp = <<>> THEN [st |-> st, err |-> "invalid"]
     ELSE IF fp \notin DOMAIN st.live THEN [st |-> st, err |-> "notexist"]
     ELSE [st |-> [st EXCEPT !.live = Without(@, fp)], err |-> ""]

\* casTable.Remove(hash)
Remove(st, hash) ==
  IF ~validPath(hash) THEN [st |-> st, err |-> "invalid"]
  ELSE TrashMove(st, <<SubSeq(hash, 1, splitAt), SubSeq(hash, splitAt + 1, Len(hash))>>)

\* casTable.ServeHTTP: the status of the answer and its body.
ServeHTTP(st, urlPath) ==
  IF urlPath = <<>> \/ urlPath[1] # "/" THEN [code |-> 501, data |-> <<>>]
  ELSE LET casItem == filePath(Tail(urlPath))
       IN IF casItem = <<>> THEN [code |-> 400, data |-> <<>>]
          ELSE IF casItem \notin DOMAIN st.live THEN [code |-> 404, data |-> <<>>]
          ELSE [code |-> 200, data |-> st.live[casItem]]

\* type CasEntry struct { Item string; Error error }
CasEntry(item, error) == [Item |-> item, Error |-> error]

\* The shard directories MakeCasTable creates, of which the model keeps those
\* the digests of Contents fall in (an empty shard adds nothing to a scan).
Shards == {SubSeq(sha1Bytes(c), 1, splitAt) : c \in Contents}

\* readDirNames(casDir): the names found in casDir.
TopNames(st) ==
  {p[1] : p \in DOMAIN st.live} \cup Shards
    \cup (IF st.needFsck THEN {needFsckName} ELSE {})
    \cup (IF st.trash # {} THEN {TrashName} ELSE {})

\* readDirNames(casDir/prefix): the names found in one shard.
ShardItems(st, prefix) == {p[2] : p \in {q \in DOMAIN st.live : Len(q) = 2 /\ q[1] = prefix}}

\* The order in which a directory listing or a map iteration yields its names.
RECURSIVE SeqOf(_)
SeqOf(S) == IF S = {} THEN <<>> ELSE LET x == CHOOSE y \in S : TRUE IN <<x>> \o SeqOf(S \ {x})

\* The loop over the items of one shard skipping an invalid item without
\* moving it to the trash.
RECURSIVE EnumerateItemsNoMove(_, _, _)
EnumerateItemsNoMove(acc, prefix, subitems) ==
  IF subitems = <<>> THEN acc
  ELSE LET item == Head(subitems)
       IN IF ~reRest(item)
          THEN EnumerateItemsNoMove([acc EXCEPT !.st = NeedFsck(@)], prefix, Tail(subitems))
          ELSE EnumerateItemsNoMove([acc EXCEPT !.out = Append(@, CasEntry(prefix \o item, ""))],
                                    prefix, Tail(subitems))

\* casTable.Enumerate, the loop over the items of one shard.
RECURSIVE EnumerateItems(_, _, _)
EnumerateItems(acc, prefix, subitems) ==
  IF subitems = <<>> THEN acc
  ELSE LET item == Head(subitems)
       IN IF ~reRest(item)
          THEN EnumerateItems([acc EXCEPT !.st = NeedFsck(TrashMove(@, <<prefix, item>>).st)],
                              prefix, Tail(subitems))
          ELSE EnumerateItems([acc EXCEPT !.out = Append(@, CasEntry(prefix \o item, ""))],
                              prefix, Tail(subitems))

\* The loop over the names of casDir sending nothing for a shard it cannot
\* read.
RECURSIVE EnumeratePrefixesSilent(_, _, _)
EnumeratePrefixesSilent(acc, prefixes, failing) ==
  IF prefixes = <<>> THEN acc
  ELSE LET prefix == Head(prefixes)
           rest == Tail(prefixes)
       IN IF prefix = TrashName THEN EnumeratePrefixesSilent(acc, rest, failing)
          ELSE IF ~rePrefix(prefix)
          THEN EnumeratePrefixesSilent([acc EXCEPT !.st = NeedFsck(TrashMove(@, <<prefix>>).st)],
                                       rest, failing)
          ELSE IF prefix \in failing
          THEN EnumeratePrefixesSilent(acc, rest, failing)
          ELSE EnumeratePrefixesSilent(EnumerateItems(acc, prefix, SeqOf(ShardItems(acc.st, prefix))),
                                       rest, failing)

\* casTable.Enumerate, the loop over the names of casDir.  failing are the
\* shards whose directory cannot be read.
RECURSIVE EnumeratePrefixes(_, _, _)
EnumeratePrefixes(acc, prefixes, failing) ==
  IF prefixes = <<>> THEN acc
  ELSE LET prefix == Head(prefixes)
           rest == Tail(prefixes)
       IN IF prefix = TrashName THEN EnumeratePrefixes(acc, rest, failing)
          ELSE IF ~rePrefix(prefix)
          THEN EnumeratePrefixes([acc EXCEPT !.st = NeedFsck(TrashMove(@, <<prefix>>).st)],
                                 rest, failing)
          ELSE IF prefix \in failing
          THEN EnumeratePrefixes([acc EXCEPT !.out = Append(@, CasEntry(<<>>, "Failed reading")),
                                             !.st = NeedFsck(@)],
                                 rest, failing)
          ELSE EnumeratePrefixes(EnumerateItems(acc, prefix, SeqOf(ShardItems(acc.st, prefix))),
                                 rest, failing)

\* casTable.Enumerate with its channel drained: the entries sent and the
\* store left.  seen are the names of casDir the loop reached before
\* IsInterrupted() ended it (all of them when it was not interrupted);
\* rootErr is readDirNames(casDir) failing.
Enumerate(st, seen, failing, rootErr) ==
  IF rootErr THEN [st |-> st, out |-> <<CasEntry(<<>>, "Failed reading")>>]
  ELSE EnumeratePrefixes([st |-> st, out |-> <<>>], SeqOf(TopNames(st) \cap seen), failing)

\* The items of a drained enumeration and whether it held an error entry.
Items(out) == [i \in 1..Len(out) |-> out[i].Item]

HasError(out) == \E i \in 1..Len(out) : out[i].Error # ""

\* EnumerateCasAsList on an undisturbed scan.
EnumerateCasAsList(st) == Enumerate(st, TopNames(st), {}, FALSE)

\* ------------------------------------------------------- Entry and Node

\* type Entry: a leaf carries Sha1, a directory carries Files.
Leaf(sha1) == [Sha1 |-> sha1, Files |-> <<>>]

Dir(files) == [Sha1 |-> <<>>, Files |-> files]

\* {file1 -> "content1", dir1/dir2/file2 -> "content2"}
Tree1 == Dir(<<Leaf(sha1Bytes(Content1)), Dir(<<Dir(<<Leaf(sha1Bytes(Content2))>>)>>)>>)

\* {file1 -> "content1"}
Tree2 == Dir(<<Leaf(sha1Bytes(Content1))>>)

\* The serialized form of each tree, and the leaves archived with it.
TreeBlob(t) == IF t = 1 THEN TreeBlob1 ELSE TreeBlob2

TreeLeaves(t) == IF t = 1 THEN <<Content1, Content2>> ELSE <<Content1>>

\* json.Unmarshal of an Entry blob: only a whole serialized tree decodes.
DecodeEntry(data) ==
  CASE data = TreeBlob1 -> [err |-> "", entry |-> Tree1]
    [] data = TreeBlob2 -> [err |-> "", entry |-> Tree2]
    [] OTHER -> [err |-> "malformed", entry |-> Leaf(<<>>)]

\* LoadEntry(cas, hash): opens the blob and decodes it.
LoadEntry(st, hash) ==
  LET f == Open(st, hash)
  IN IF f.err # "" THEN [err |-> f.err, entry |-> Leaf(<<>>)] ELSE DecodeEntry(f.data)

\* A record of the node store: valid records decode to a Node{Entry}.
NodeRecord(id, valid, entry) == [id |-> id, valid |-> valid, Entry |-> entry]

\* The two records one archive of tree t leaves in the node store.
ArchiveNodes(t) ==
  {NodeRecord(<<t, k>>, TRUE, sha1Bytes(TreeBlob(t))) : k \in {"node", "tag"}}

\* The record Corrupt() injects into the node store.
CorruptNode == NodeRecord(<<0, "corrupt">>, FALSE, <<>>)

\* NodesTable.Enumerate with its channel drained: valid records are sent,
\* invalid ones are quarantined.  seen are the records reached before
\* IsInterrupted() ended the scan; failed is an error entry ending it.
NodesEnumerate(st, seen, failed) ==
  LET reached == st.nodes \cap seen
      bad == {n \in reached : ~n.valid}
      good == SeqOf(reached \ bad)
  IN [st |-> [st EXCEPT !.nodes = @ \ bad, !.nodesTrash = @ \cup bad],
      out |-> [i \in 1..Len(good) |-> [Node |-> good[i], Error |-> ""]]
                \o (IF failed THEN <<[Node |-> CorruptNode, Error |-> "Failed reading"]>> ELSE <<>>)]

\* ------------------------------------------------------ command entry

\* CommonFlag refusing when fsck is bypassed instead of when it is not.
CommonFlagInverted(st, bypassFsck) ==
  IF WarnIfFsckIsNeeded(st) /\ bypassFsck THEN "fsck needed" ELSE ""

\* CommonFlag(createRoot, bypassFsck) with -root given: the error, if any.
CommonFlag(st, bypassFsck) ==
  IF WarnIfFsckIsNeeded(st) /\ ~bypassFsck THEN "fsck needed" ELSE ""

\* ------------------------------------------------------------------ gc

RECURSIVE TagRecurse(_, _)
RECURSIVE TagFiles(_, _)
\* TagRecurse writing false: a digest a tree names enters the map untagged.
TagRecurseUntags(entries, entry) ==
  TagFiles(IF entry.Sha1 # <<>> THEN With(entries, entry.Sha1, FALSE) ELSE entries, entry.Files)

\* TagRecurse(entries, entry)
TagRecurse(entries, entry) ==
  TagFiles(IF entry.Sha1 # <<>> THEN With(entries, entry.Sha1, TRUE) ELSE entries, entry.Files)

\* TagRecurse, the loop over entry.Files.
TagFiles(entries, files) ==
  IF files = <<>> THEN entries ELSE TagFiles(TagRecurse(entries, Head(files)), Tail(files))

\* The mark loop going on to the next node when LoadEntry fails.
RECURSIVE GcMarkSkipsFailedLoad(_, _, _)
GcMarkSkipsFailedLoad(st, entries, items) ==
  IF items = <<>> THEN [entries |-> entries, err |-> ""]
  ELSE LET item == Head(items)
       IN IF item.Error # "" THEN [entries |-> entries, err |-> item.Error]
          ELSE LET tagged == With(entries, item.Node.Entry, TRUE)
                   l == LoadEntry(st, item.Node.Entry)
               IN IF l.err # "" THEN GcMarkSkipsFailedLoad(st, tagged, Tail(items))
                  ELSE GcMarkSkipsFailedLoad(st, TagRecurse(tagged, l.entry), Tail(items))

\* gcRun.main, the loop over c.nodes.Enumerate().
RECURSIVE GcMark(_, _, _)
GcMark(st, entries, items) ==
  IF items = <<>> THEN [entries |-> entries, err |-> ""]
  ELSE LET item == Head(items)
       IN IF item.Error # "" THEN [entries |-> entries, err |-> item.Error]
          ELSE LET tagged == With(entries, item.Node.Entry, TRUE)
                   l == LoadEntry(st, item.Node.Entry)
               IN IF l.err # "" THEN [entries |-> tagged, err |-> l.err]
                  ELSE GcMark(st, TagRecurse(tagged, l.entry), Tail(items))

\* The order in which the range over the entries map yields the orphans.
\* The order of a map iteration is not fixed: when an orphan cannot be moved,
\* first are the orphans the iteration yields before it.
SweepOrder(orphans, in) ==
  IF orphans \cap in.unmovable = {} THEN SeqOf(orphans)
  ELSE SeqOf(orphans \cap (in.first \ in.unmovable)) \o SeqOf(orphans \cap in.unmovable)
         \o SeqOf(orphans \ (in.first \cup in.unmovable))

\* c.cas.Remove(orphan) in the sweep: unmovable are the blobs whose rename
\* into the trash fails in this run.
SweepRemove(st, orphan, unmovable) ==
  IF validPath(orphan) /\ orphan \in unmovable THEN [st |-> st, err |-> "rename"]
  ELSE Remove(st, orphan)

\* The sweep going on to the next orphan after a Remove that failed.
RECURSIVE GcSweepKeepsGoing(_, _, _)
GcSweepKeepsGoing(st, orphans, unmovable) ==
  IF orphans = <<>> THEN [st |-> st, err |-> ""]
  ELSE LET r == SweepRemove(st, Head(orphans), unmovable)
       IN IF r.err # ""
          THEN [st |-> SetFsckBit(GcSweepKeepsGoing(r.st, Tail(orphans), unmovable).st),
                err |-> "Internal error while removing"]
          ELSE GcSweepKeepsGoing(r.st, Tail(orphans), unmovable)

\* gcRun.main, the loop over the orphans.
RECURSIVE GcSweep(_, _, _)
GcSweep(st, orphans, unmovable) ==
  IF orphans = <<>> THEN [st |-> st, err |-> ""]
  ELSE LET r == SweepRemove(st, Head(orphans), unmovable)
       IN IF r.err # "" THEN [st |-> SetFsckBit(r.st), err |-> "Internal error while removing"]
          ELSE GcSweep(r.st, Tail(orphans), unmovable)

\* gcRun.main.  in holds what the run meets: the names and records its two
\* scans reach, the shards that cannot be read, the error entries, the blobs
\* that cannot be moved and the order of the sweep.
GcMain(st, in) ==
  IF CommonFlag(st, FALSE) # "" THEN [st |-> st, err |-> CommonFlag(st, FALSE)]
  ELSE LET e == Enumerate(st, in.seen, in.failing, in.rootErr)
       IN IF HasError(e.out)
          THEN [st |-> SetFsckBit(e.st), err |-> "Failed enumerating the CAS table"]
          ELSE LET found == {e.out[i].Item : i \in 1..Len(e.out)}
                   n == NodesEnumerate(e.st, in.seenNodes, in.nodesErr)
                   m == GcMark(n.st, [k \in found |-> FALSE], n.out)
               IN IF m.err # "" THEN [st |-> n.st, err |-> m.err]
                  ELSE GcSweep(n.st, SweepOrder({k \in DOMAIN m.entries : ~m.entries[k]}, in), in.unmovable)

\* ---------------------------------------------------------------- fsck

\* The fsck command: one scan of the blob store and one of the node store,
\* past the flag's gate; a run that met no error clears the flag.
FsckMain(st, in) ==
  LET e == Enumerate(st, in.seen, in.failing, in.rootErr)
  IN IF CommonFlag(st, TRUE) # "" THEN [st |-> st, err |-> CommonFlag(st, TRUE)]
     ELSE IF HasError(e.out) THEN [st |-> e.st, err |-> "Failed enumerating the CAS table"]
     ELSE LET n == NodesEnumerate(e.st, in.seenNodes, in.nodesErr)
          IN IF HasError(n.out) THEN [st |-> n.st, err |-> "Failed enumerating the nodes"]
             ELSE [st |-> ClearFsckBit(n.st), err |-> ""]

\* ----------------------------------------------- archiving and Corrupt

\* archiveData: stores the leaves and the serialized tree, then registers
\* the node records pointing at the tree.
RECURSIVE AddAll(_, _)
AddAll(st, blobs) ==
  IF blobs = <<>> THEN st ELSE AddAll(AddBytes(st, Head(blobs), Len(Head(blobs))).st, Tail(blobs))

ArchiveData(st, t) ==
  [AddAll(st, Append(TreeLeaves(t), TreeBlob(t))) EXCEPT !.nodes = @ \cup ArchiveNodes(t)]

\* What Corrupt() leaves in the blob store: an entry of casDir whose name is
\* no shard, an item whose name is no digest suffix, or a blob whose bytes
\* are not those its name is the digest of.
CorruptData == <<9>>

CorruptKey == sha1Bytes(<<>>)

CorruptPath(kind) ==
  CASE kind = "shard" -> <<<<"x", "y">>>>
    [] kind = "item" -> <<SubSeq(sha1Bytes(Content1), 1, splitAt), <<"t", "m", "p">>>>
    [] OTHER -> filePath(CorruptKey)

CorruptKinds == {"shard", "item", "content"}

CorruptCas(st, kind) == [st EXCEPT !.live = With(@, CorruptPath(kind), CorruptData)]

CorruptNodes(st) == [st EXCEPT !.nodes = @ \cup {CorruptNode}]

\* -------------------------------------------------------------- inputs

\* Strings that are no key of the blob store.
InvalidKeys == {<<"0">>, [Rep("a", hashLength) EXCEPT ![7] = "A"]}

Keys == {sha1Bytes(c) : c \in Contents} \cup InvalidKeys

\* The URL paths asked of ServeHTTP.
Urls == {<<"/">> \o k : k \in {sha1Bytes(Content1)} \cup InvalidKeys}
          \cup {<<>>, sha1Bytes(Content1), <<"/">> \o sha1Bytes(Content1) \o <<"/">>}

\* The names of casDir whose visit changes or sends something: a scan cut
\* short is told from a whole one only by those of them it did not reach.
Effective(st) ==
  {n \in TopNames(st) \ {TrashName} : ~rePrefix(n) \/ ShardItems(st, n) # {}}

\* What a scan of the blob store can meet: nothing, shards that cannot be
\* read, casDir that cannot be read, or the interruption signal after any
\* part of the names.
Undisturbed(st) == [seen |-> TopNames(st) \cup {TrashName}, failing |-> {}, rootErr |-> FALSE]

Interrupted(st) ==
  {[Undisturbed(st) EXCEPT !.seen = @ \ S] : S \in SUBSET Effective(st)}

ScanInputs(st) ==
  {[Undisturbed(st) EXCEPT !.failing = F] : F \in SUBSET Shards}
    \cup Interrupted(st)
    \cup {[Undisturbed(st) EXCEPT !.rootErr = TRUE]}

\* What a command meets in its two scans.  The interruption signal stays
\* raised: a run interrupted in its first scan reaches nothing in its second.
RunInput(c, seenNodes, nodesErr) ==
  [seen |-> c.seen, failing |-> c.failing, rootErr |-> c.rootErr,
   seenNodes |-> seenNodes, nodesErr |-> nodesErr, unmovable |-> {}, first |-> {}]

\* The orphans an undisturbed gc run finds in the store.
Orphans(st) ==
  LET e == EnumerateCasAsList(st)
      n == NodesEnumerate(e.st, st.nodes, FALSE)
      m == GcMark(n.st, [k \in {e.out[i].Item : i \in 1..Len(e.out)} |-> FALSE], n.out)
  IN IF CommonFlag(st, FALSE) # "" \/ HasError(e.out) \/ m.err # "" THEN {}
     ELSE {k \in DOMAIN m.entries : ~m.entries[k]}

\* What a sweep can meet: one orphan whose move to the trash fails, after any
\* part of the other orphans.
SweepInputs(st) ==
  UNION {{[RunInput(Undisturbed(st), st.nodes, FALSE) EXCEPT !.unmovable = {h}, !.first = F] :
            F \in SUBSET (Orphans(st) \ {h})} : h \in Orphans(st)}

RunInputs(st) ==
  {RunInput(c, st.nodes, FALSE) : c \in ScanInputs(st) \ Interrupted(st)}
    \cup {RunInput(c, {}, FALSE) : c \in Interrupted(st)}
    \cup {RunInput(Undisturbed(st), N, FALSE) : N \in SUBSET st.nodes}
    \cup {RunInput(Undisturbed(st), N, TRUE) : N \in {{}, st.nodes}}

\* Whether a run met nothing: both scans reached everything, without error.
Complete(st, in) ==
  /\ TopNames(st) \subseteq in.seen /\ in.failing = {} /\ ~in.rootErr
  /\ st.nodes \subseteq in.seenNodes /\ ~in.nodesErr
  /\ in.unmovable = {}

\* Whether an enumeration of the run sent an error entry.
Faulty(in) == in.failing # {} \/ in.rootErr \/ in.nodesErr

\* --------------------------------------------------------- MakeCasTable

\* func prefixSpace(prefixLength uint) int: 1 << (prefixLength * 4), 0 for 0.
prefixSpace(prefixLength) == IF prefixLength = 0 THEN 0 ELSE 2 ^ (prefixLength * 4)

\* The digits of fmt.Sprintf("%x", x).
RECURSIVE HexOf(_)
HexOf(x) == IF x < 16 THEN <<HexDigits[x + 1]>> ELSE HexOf(x \div 16) \o <<HexDigits[(x % 16) + 1]>>

\* fmt.Sprintf("%0*x", width, x): the digits, padded with zeros to the width.
FormatHex(width, x) ==
  LET h == HexOf(x) IN IF Len(h) >= width THEN h ELSE Rep("0", width - Len(h)) \o h

\* A rootDir without casDir, and no table.  made is the number of turns of
\* the loop of MakeCasTable that made their shard directory: the loop makes
\* them in order, in a casDir it has just made.
NoRoot == [cas |-> FALSE, made |-> 0, table |-> "none"]

\* The shard directories of casDir.
ShardDirs(rt) == {FormatHex(splitAt, i) : i \in 0..(rt.made - 1)}

\* MakeCasTable(rootDir).  stop is the turn of the loop at which os.Mkdir of
\* the shard fails, or the process is ended (prefixSpace when at none, -1 when
\* os.Mkdir(casDir) itself fails).  When casDir is there already the loop is
\* not run.
MakeCasTable(rt, stop) ==
  IF rt.cas THEN [rt EXCEPT !.table = "up"]
  ELSE IF stop < 0 THEN [rt EXCEPT !.table = "error"]
  ELSE IF stop < prefixSpace(splitAt)
  THEN [cas |-> TRUE, made |-> stop, table |-> "error"]
  ELSE [cas |-> TRUE, made |-> prefixSpace(splitAt), table |-> "up"]

\* The rootDir the operations work in: MakeCasTable has made casDir and all
\* its shards and returned the table.
FreshRoot == MakeCasTable(NoRoot, prefixSpace(splitAt))

\* casTable.AddEntry in a casDir that may lack shard directories: os.OpenFile
\* fails when the directory of dst is not there.
AddEntryAt(rt, st, source, hash, ncopied) ==
  LET dst == filePath(hash)
  IN IF dst # <<>> /\ dst[1] \notin ShardDirs(rt) THEN [st |-> st, err |-> "open"]
     ELSE AddEntry(st, source, hash, ncopied)

\* ---------------------------------------------- AddEntry, step by step

\* The goroutines that call AddEntry at the same time.
Procs == {1, 2}

\* A call of AddEntry: where it is, its arguments, the bytes copied so far.
Idle == [pc |-> "idle", hash |-> <<>>, source |-> <<>>, n |-> 0, err |-> ""]

\* os.OpenFile(dst, O_WRONLY|O_CREATE|O_TRUNC): an existing file is emptied.
OpenFileNoExcl(st, dst) ==
  IF dst = <<>> THEN [st |-> st, err |-> "open"]
  ELSE [st |-> [st EXCEPT !.live = With(@, dst, <<>>)], err |-> ""]

\* os.OpenFile(dst, O_WRONLY|O_CREATE|O_EXCL, 0640): one system call, which
\* creates the file empty or fails because it exists.
OpenFile(st, dst) ==
  IF dst = <<>> THEN [st |-> st, err |-> "open"]
  ELSE IF dst \in DOMAIN st.live THEN [st |-> st, err |-> "exist"]
  ELSE [st |-> [st EXCEPT !.live = With(@, dst, <<>>)], err |-> ""]

\* A write of one byte at the offset of the handle; a gap reads as zeros.
WriteAt(data, offset, b) ==
  [i \in 1..(IF Len(data) > offset THEN Len(data) ELSE offset + 1) |->
     IF i = offset + 1 THEN b ELSE IF i <= Len(data) THEN data[i] ELSE 0]

\* AddBytes hashes the data and enters AddEntry.
BeginAddEntry(p) ==
  /\ calls[p].pc = "idle"
  /\ \E data \in {Content1, Content2} :
       calls' = [calls EXCEPT ![p] = [pc |-> "open", hash |-> sha1Bytes(data),
                                      source |-> data, n |-> 0, err |-> ""]]
  /\ UNCHANGED <<live, trash, needFsck, nodes, nodesTrash, last, steps, scan, root>>

\* dst := c.filePath(hash); df, err := os.OpenFile(dst, ...)
OpenStep(p) ==
  /\ calls[p].pc = "open"
  /\ LET r == OpenFile(World, filePath(calls[p].hash))
     IN /\ live' = r.st.live
        /\ calls' = [calls EXCEPT ![p].pc = IF r.err = "" THEN "copy" ELSE "done",
                                  ![p].err = r.err]
  /\ UNCHANGED <<trash, needFsck, nodes, nodesTrash, last, steps, scan, root>>

\* io.Copy(df, source): the next byte is written, or the copy fails.
CopyStep(p) ==
  /\ calls[p].pc = "copy" /\ calls[p].n < Len(calls[p].source)
  /\ \/ /\ filePath(calls[p].hash) \in DOMAIN live
        /\ live' = [live EXCEPT ![filePath(calls[p].hash)] =
                      WriteAt(@, calls[p].n, calls[p].source[calls[p].n + 1])]
        /\ calls' = [calls EXCEPT ![p].n = @ + 1]
     \/ /\ live' = live
        /\ calls' = [calls EXCEPT ![p].pc = "done", ![p].err = "copy"]
  /\ UNCHANGED <<trash, needFsck, nodes, nodesTrash, last, steps, scan, root>>

\* The copy is over: df.Close() and return nil.
ReturnStep(p) ==
  /\ calls[p].pc = "copy" /\ calls[p].n = Len(calls[p].source)
  /\ calls' = [calls EXCEPT ![p].pc = "done"]
  /\ UNCHANGED <<live, trash, needFsck, nodes, nodesTrash, last, steps, scan, root>>

\* No Enumerate in progress: the goroutine's position and locals, the entries
\* the consumer received, whether the channel is closed, the consumer's
\* position, and what the scan meets.
NoScan ==
  [pc |-> "idle", prefixes |-> <<>>, prefix |-> <<>>, subitems |-> <<>>, item |-> <<>>,
   received |-> <<>>, closed |-> FALSE, consumer |-> "", cpc |-> "idle",
   interrupted |-> FALSE, failing |-> {}, rootErr |-> FALSE, start |-> <<>>]

\* ------------------------------------------------------------- actions

\* What `last` holds of an operation; each action fills in its own fields.
Call(op) ==
  [op |-> op, key |-> <<>>, err |-> "", data |-> <<>>, out |-> <<>>, code |-> 0,
   kind |-> "", full |-> TRUE, flag0 |-> needFsck,
   fault |-> FALSE, unmovable |-> {}, first |-> {}, failing |-> {}]

Install(st) ==
  /\ live' = st.live
  /\ trash' = st.trash
  /\ needFsck' = st.needFsck
  /\ nodes' = st.nodes
  /\ nodesTrash' = st.nodesTrash
  /\ steps' = steps + 1
  /\ calls' = calls
  /\ scan' = scan
  /\ root' = root

Init ==
  /\ live = NoFiles
  /\ trash = {}
  /\ needFsck = FALSE
  /\ nodes = {}
  /\ nodesTrash = {}
  /\ steps = 0
  /\ calls = [p \in Procs |-> Idle]
  /\ scan = NoScan
  /\ root = FreshRoot
  /\ last = [op |-> "MakeCasTable", key |-> <<>>, err |-> "", data |-> <<>>, out |-> <<>>,
             code |-> 0, kind |-> "", full |-> TRUE, flag0 |-> FALSE,
             fault |-> FALSE, unmovable |-> {}, first |-> {}, failing |-> {}]

DoAddBytes ==
  /\ steps < MaxSteps
  /\ \E data \in Contents : \E ncopied \in {1, Len(data)} :
       LET r == AddBytes(World, data, ncopied)
       IN /\ Install(r.st)
          /\ last' = [Call("AddBytes") EXCEPT !.key = r.hash, !.err = r.err, !.data = data]

DoAddEntry ==
  /\ steps < MaxSteps
  /\ \E hash \in InvalidKeys :
       LET r == AddEntry(World, Content1, hash, Len(Content1))
       IN /\ Install(r.st)
          /\ last' = [Call("AddEntry") EXCEPT !.key = hash, !.err = r.err, !.data = Content1]

DoOpen ==
  /\ steps < MaxSteps
  /\ \E hash \in Keys :
       LET r == Open(World, hash)
       IN /\ Install(World)
          /\ last' = [Call("Open") EXCEPT !.key = hash, !.err = r.err, !.data = r.data]

DoRemove ==
  /\ steps < MaxSteps
  /\ \E hash \in Keys :
       LET r == Remove(World, hash)
       IN /\ Install(r.st)
          /\ last' = [Call("Remove") EXCEPT !.key = hash, !.err = r.err]

DoServeHTTP ==
  /\ steps < MaxSteps
  /\ \E urlPath \in Urls :
       LET r == ServeHTTP(World, urlPath)
       IN /\ Install(World)
          /\ last' = [Call("ServeHTTP") EXCEPT !.key = urlPath, !.code = r.code, !.data = r.data]

DoEnumerate ==
  /\ steps < MaxSteps
  /\ \E in \in ScanInputs(World) :
       LET r == Enumerate(World, in.seen, in.failing, in.rootErr)
       IN /\ Install(r.st)
          /\ last' = [Call("Enumerate") EXCEPT !.out = r.out, !.full = (in = Undisturbed(World)),
                                               !.fault = (in.failing # {} \/ in.rootErr),
                                               !.failing = in.failing,
                                               !.err = IF HasError(r.out) THEN "error" ELSE ""]

DoSetFsckBit ==
  /\ steps < MaxSteps
  /\ Install(SetFsckBit(World))
  /\ last' = Call("SetFsckBit")

DoClearFsckBit ==
  /\ steps < MaxSteps
  /\ Install(ClearFsckBit(World))
  /\ last' = Call("ClearFsckBit")

DoArchive ==
  /\ steps < MaxSteps
  /\ \E t \in {1, 2} :
       /\ Install(ArchiveData(World, t))
       /\ last' = [Call("Archive") EXCEPT !.code = t]

\* A node record is deleted from the node store.
DoNodeRemove ==
  /\ steps < MaxSteps
  /\ \E n \in nodes :
       /\ Install([World EXCEPT !.nodes = @ \ {n}, !.nodesTrash = @ \cup {n}])
       /\ last' = Call("NodeRemove")

DoCorruptCas ==
  /\ steps < MaxSteps
  /\ \E kind \in CorruptKinds :
       /\ Install(CorruptCas(World, kind))
       /\ last' = [Call("CorruptCas") EXCEPT !.kind = kind]

DoCorruptNodes ==
  /\ steps < MaxSteps
  /\ Install(CorruptNodes(World))
  /\ last' = Call("CorruptNodes")

DoGc ==
  /\ steps < MaxSteps
  /\ \E in \in RunInputs(World) \cup SweepInputs(World) :
       LET r == GcMain(World, in)
       IN /\ Install(r.st)
          /\ last' = [Call("gc") EXCEPT !.err = r.err, !.full = Complete(World, in),
                                        !.fault = Faulty(in), !.unmovable = in.unmovable,
                                        !.first = in.first]

DoFsck ==
  /\ steps < MaxSteps
  /\ \E in \in RunInputs(World) :
       LET r == FsckMain(World, in)
       IN /\ Install(r.st)
          /\ last' = [Call("fsck") EXCEPT !.err = r.err, !.full = Complete(World, in),
                                          !.fault = Faulty(in)]

Next ==
  \/ DoAddBytes
  \/ DoAddEntry
  \/ DoOpen
  \/ DoRemove
  \/ DoServeHTTP
  \/ DoEnumerate
  \/ DoSetFsckBit
  \/ DoClearFsckBit
  \/ DoArchive
  \/ DoNodeRemove
  \/ DoCorruptCas
  \/ DoCorruptNodes
  \/ DoGc
  \/ DoFsck

Spec == Init /\ [][Next]_vars

\* Two goroutines, each calling AddEntry once on a new store, their steps
\* interleaved in every order.
NextAddEntry ==
  \E p \in Procs : BeginAddEntry(p) \/ OpenStep(p) \/ CopyStep(p) \/ ReturnStep(p)

SpecAddEntry == Init /\ [][NextAddEntry]_vars

\* The layouts of casDir a crash or a hand can leave: under the path of a
\* digest its content, a truncated content, other bytes or a directory;
\* under a name that is no digest's, a file or a directory.
LayoutPaths ==
  <<filePath(sha1Bytes(Content1)), filePath(sha1Bytes(TreeBlob1)),
    CorruptPath("item"), CorruptPath("shard")>>

\* Nothing at the path.
Absent == <<-2>>

\* What a layout can hold at the path of the digest of content c, and at a
\* path that is no digest's.
BlobPayloads(c) == {Absent, c, SubSeq(c, 1, 1), CorruptData, Directory}

OtherPayloads == {Absent, CorruptData, Directory}

\* The layout holding payload held[i] at LayoutPaths[i].
LayoutOf(held) ==
  LET S == {LayoutPaths[i] : i \in {j \in 1..Len(held) : held[j] # Absent}}
  IN [q \in S |-> held[CHOOSE i \in 1..Len(held) : LayoutPaths[i] = q]]

Layouts ==
  {LayoutOf(<<a, b, c, d>>) : a \in BlobPayloads(Content1), b \in BlobPayloads(TreeBlob1),
                              c \in OtherPayloads, d \in OtherPayloads}

InitLayouts ==
  /\ live \in Layouts
  /\ trash = {}
  /\ needFsck = FALSE
  /\ nodes = {}
  /\ nodesTrash = {}
  /\ steps = 0
  /\ calls = [p \in Procs |-> Idle]
  /\ scan = NoScan
  /\ root = FreshRoot
  /\ last = [Call("MakeCasTable") EXCEPT !.flag0 = FALSE]

\* One Enumerate of the layout.
ScanLayout == steps = 0 /\ DoEnumerate

\* The consumer opens an entry the enumeration sent.
OpenEmitted ==
  /\ steps = 1 /\ last.op = "Enumerate"
  /\ \E i \in 1..Len(last.out) :
       /\ last.out[i].Error = ""
       /\ Install(World)
       /\ last' = [Call("Open") EXCEPT !.key = last.out[i].Item,
                                       !.err = Open(World, last.out[i].Item).err,
                                       !.data = Open(World, last.out[i].Item).data]

NextLayouts == ScanLayout \/ OpenEmitted

SpecLayouts == InitLayouts /\ [][NextLayouts]_vars

\* ------------------------------------------------ Enumerate, step by step

\* The layouts an Enumerate is followed through step by step: each of two
\* blobs of different shards, a badly named item and a badly named name of
\* casDir is there or not.
ScanLayouts ==
  {LayoutOf(<<a, b, c, d>>) : a \in {Absent, Content1}, b \in {Absent, TreeBlob1},
                              c \in {Absent, CorruptData}, d \in {Absent, CorruptData}}

\* The consumers of the channel: a loop that ranges over it to its close
\* (EnumerateCasAsList, fsck) and the first loop of gcRun.main, which returns
\* on the first error entry.
Consumers == {"drain", "gc"}

\* Enumerate() has returned the channel: the goroutine is about to read
\* casDir and the consumer is at its range loop.
InitScan ==
  /\ live \in ScanLayouts
  /\ trash = {}
  /\ needFsck = FALSE
  /\ nodes = {}
  /\ nodesTrash = {}
  /\ steps = 0
  /\ calls = [p \in Procs |-> Idle]
  /\ last = [Call("MakeCasTable") EXCEPT !.flag0 = FALSE]
  /\ root = FreshRoot
  /\ \E k \in Consumers, in \in ScanInputs(World) \ Interrupted(World) :
       scan = [NoScan EXCEPT !.pc = "readdir", !.consumer = k, !.cpc = "range",
                             !.failing = in.failing, !.rootErr = in.rootErr,
                             !.start = World]

\* A step of the goroutine that changes the store.
ScanInstall(st) ==
  /\ live' = st.live
  /\ trash' = st.trash
  /\ needFsck' = st.needFsck
  /\ UNCHANGED <<nodes, nodesTrash, last, steps, calls, root>>

\* prefixes, err := readDirNames(c.casDir)
ReadDirStep ==
  /\ scan.pc = "readdir"
  /\ scan' = IF scan.rootErr THEN [scan EXCEPT !.pc = "sendroot"]
             ELSE [scan EXCEPT !.pc = "loop", !.prefixes = SeqOf(TopNames(World))]
  /\ ScanInstall(World)

\* One turn of the loop over the names of casDir, up to the send or the loop
\* over the items of the shard.
LoopStep ==
  /\ scan.pc = "loop"
  /\ IF scan.prefixes = <<>> \/ scan.interrupted
     THEN scan' = [scan EXCEPT !.pc = "close"] /\ ScanInstall(World)
     ELSE LET prefix == Head(scan.prefixes)
              next == [scan EXCEPT !.prefixes = Tail(@), !.prefix = prefix]
          IN IF prefix = TrashName THEN scan' = next /\ ScanInstall(World)
             ELSE IF ~rePrefix(prefix)
             THEN scan' = next /\ ScanInstall(NeedFsck(TrashMove(World, <<prefix>>).st))
             ELSE IF prefix \in scan.failing
             THEN scan' = [next EXCEPT !.pc = "senderr"] /\ ScanInstall(World)
             ELSE /\ scan' = [next EXCEPT !.pc = "items",
                                          !.subitems = SeqOf(ShardItems(World, prefix))]
                  /\ ScanInstall(World)

\* One turn of the loop over the items of a shard, up to the send.
ItemStep ==
  /\ scan.pc = "items"
  /\ IF scan.subitems = <<>>
     THEN scan' = [scan EXCEPT !.pc = "loop"] /\ ScanInstall(World)
     ELSE LET item == Head(scan.subitems)
              next == [scan EXCEPT !.subitems = Tail(@), !.item = item]
          IN IF ~reRest(item)
             THEN scan' = next /\ ScanInstall(NeedFsck(TrashMove(World, <<scan.prefix, item>>).st))
             ELSE scan' = [next EXCEPT !.pc = "senditem"] /\ ScanInstall(World)

\* The entry the goroutine is about to send.
Sending ==
  IF scan.pc = "senditem" THEN CasEntry(scan.prefix \o scan.item, "")
  ELSE CasEntry(<<>>, "Failed reading")

\* close(items) leaving the channel open.
CloseChannelDropped(sc) == [sc EXCEPT !.pc = "done"]

\* close(items)
CloseChannel(sc) == [sc EXCEPT !.pc = "done", !.closed = TRUE]

\* items <- CasEntry{...} on the unbuffered channel: the send completes when
\* the consumer is at its receive, and only then.  The loop of gcRun.main
\* leaves its range on an error entry.
SendStep ==
  /\ scan.pc \in {"sendroot", "senderr", "senditem"}
  /\ scan.cpc = "range"
  /\ scan' = [scan EXCEPT !.received = Append(@, Sending),
                          !.pc = CASE scan.pc = "sendroot" -> "close"
                                   [] scan.pc = "senderr" -> "needfsck"
                                   [] OTHER -> "items",
                          !.cpc = IF scan.consumer = "gc" /\ Sending.Error # ""
                                  THEN "setbit" ELSE "range"]
  /\ ScanInstall(World)

\* c.NeedFsck() after the error entry of a shard; continue.
NeedFsckStep ==
  /\ scan.pc = "needfsck"
  /\ scan' = [scan EXCEPT !.pc = "loop"]
  /\ ScanInstall(NeedFsck(World))

CloseStep ==
  /\ scan.pc = "close"
  /\ scan' = CloseChannel(scan)
  /\ ScanInstall(World)

\* IsInterrupted() becomes true.
InterruptStep ==
  /\ scan.pc \notin {"idle", "done"} /\ ~scan.interrupted
  /\ scan' = [scan EXCEPT !.interrupted = TRUE]
  /\ ScanInstall(World)

\* gcRun.main on an error entry: c.cas.SetFsckBit() and return.
GcReturnStep ==
  /\ scan.cpc = "setbit"
  /\ scan' = [scan EXCEPT !.cpc = "returned"]
  /\ ScanInstall(SetFsckBit(World))

\* The range loop of the consumer ends at the close of the channel.
RangeEndStep ==
  /\ scan.cpc = "range" /\ scan.closed
  /\ scan' = [scan EXCEPT !.cpc = "drained"]
  /\ ScanInstall(World)

GoroutineStep == ReadDirStep \/ LoopStep \/ ItemStep \/ NeedFsckStep \/ CloseStep

ConsumerStep == GcReturnStep \/ RangeEndStep

NextScan == GoroutineStep \/ SendStep \/ ConsumerStep \/ InterruptStep

\* The goroutine and the consumer are scheduled when they can run, and a send
\* completes when both sides are at the channel; the interruption signal may
\* never come.
SpecScan ==
  /\ InitScan /\ [][NextScan]_vars
  /\ WF_vars(GoroutineStep) /\ WF_vars(SendStep) /\ WF_vars(ConsumerStep)

\* -------------------------------------------- MakeCasTable, call by call

\* The turns at which the loop of MakeCasTable is stopped: before its first
\* shard, after it, before and after the shard of Content1, before the last.
StopPoints == {-1, 0, 1, 2748, 2749, 4095}

\* A rootDir in which nothing was made yet.
InitRoot ==
  /\ live = NoFiles
  /\ trash = {}
  /\ needFsck = FALSE
  /\ nodes = {}
  /\ nodesTrash = {}
  /\ steps = 0
  /\ calls = [p \in Procs |-> Idle]
  /\ scan = NoScan
  /\ root = NoRoot
  /\ last = [Call("start") EXCEPT !.flag0 = FALSE]

\* A step on rootDir and the blobs.
RootInstall(rt, st) ==
  /\ root' = rt
  /\ live' = st.live
  /\ UNCHANGED <<trash, needFsck, nodes, nodesTrash, steps, calls, scan>>

\* A process starts and calls MakeCasTable.
DoMakeCasTable ==
  /\ root.table # "up"
  /\ \E stop \in StopPoints \cup {prefixSpace(splitAt)} :
       LET rt == MakeCasTable(root, stop)
       IN /\ RootInstall(rt, World)
          /\ last' = [Call("MakeCasTable") EXCEPT !.err = IF rt.table = "up" THEN "" ELSE "error"]

\* The process ends; rootDir stays as it is.
DoExit ==
  /\ root.table = "up"
  /\ RootInstall([root EXCEPT !.table = "none"], World)
  /\ last' = Call("exit")

\* AddBytes on the table MakeCasTable returned.
DoAddBytesAt ==
  /\ root.table = "up"
  /\ \E data \in Contents :
       LET r == AddEntryAt(root, World, data, sha1Bytes(data), Len(data))
       IN /\ RootInstall(root, r.st)
          /\ last' = [Call("AddBytes") EXCEPT !.key = sha1Bytes(data), !.err = r.err,
                                              !.data = data,
                                              !.kind = IF filePath(sha1Bytes(data)) \in DOMAIN live
                                                       THEN "present" ELSE "absent"]

NextInit == DoMakeCasTable \/ DoExit \/ DoAddBytesAt

SpecInit == InitRoot /\ [][NextInit]_vars

\* ------------------------------------------------------------ properties

\* What the properties call a digest, a shard name and an item name, stated
\* apart from the patterns the code compiles.
IsHexString(s, n) ==
  /\ Len(s) = n
  /\ \A i \in 1..Len(s) :
       s[i] \in {"0", "1", "2", "3", "4", "5", "6", "7", "8", "9", "a", "b", "c", "d", "e", "f"}

IsDigest(s) == IsHexString(s, 40)

IsBlobPath(q) == Len(q) = 2 /\ IsHexString(q[1], 3) /\ IsHexString(q[2], 37)

\* The digests of the blobs of the store: the files at a shard/item path
\* whose two names are those of a digest.
Blobs(st) == {q[1] \o q[2] : q \in {r \in DOMAIN st.live : IsBlobPath(r)}}

\* The paths of the live tree that are no blob's: a name of casDir that is
\* no shard, an item that is no digest suffix.
Anomalies(st) == {q \in DOMAIN st.live : ~IsBlobPath(q)}

Present(st, hash) == IsDigest(hash) /\ hash \in Blobs(st)

\* The bytes stored under a digest that is present.
Stored(st, hash) == st.live[<<SubSeq(hash, 1, 3), SubSeq(hash, 4, 40)>>]

Count(seq, x) == Cardinality({i \in 1..Len(seq) : seq[i] = x})

IsPrefix(s, t) == Len(s) <= Len(t) /\ SubSeq(t, 1, Len(s)) = s

\* C1: an AddEntry (or AddBytes) for a digest that is already present
\* reports AlreadyExists and leaves the store as it was, the bytes under the
\* digest included; an Enumerate afterwards yields the digest exactly once;
\* and the digest AddBytes returns on the duplicate call is the one its
\* bytes were first stored under.
C1_WriteOnce ==
  [][(last'.op \in {"AddBytes", "AddEntry"} /\ Present(World, last'.key))
       => /\ last'.err = "exist"
          /\ live' = live /\ trash' = trash
          /\ Count(Items(EnumerateCasAsList(World').out), last'.key) = 1
          /\ IsPrefix(Stored(World', last'.key), last'.data)]_vars

C1_Witness ==
  /\ last.op = "AddBytes" /\ last.err = "exist"
  /\ Present(World, last.key) /\ Stored(World, last.key) = last.data

\* C2: after an AddEntry that returned no error, Open of the digest returns
\* the bytes that were added; after a Remove that returned no error, Open of
\* the digest fails, Enumerate does not yield it, and Remove of it fails.
C2_RoundTrip ==
  /\ (last.op \in {"AddBytes", "AddEntry"} /\ last.err = "")
       => Open(World, last.key) = [err |-> "", data |-> last.data]
  /\ (last.op = "Remove" /\ last.err = "")
       => /\ Open(World, last.key).err # ""
          /\ Count(Items(EnumerateCasAsList(World).out), last.key) = 0
          /\ Remove(World, last.key).err # ""

C2_WitnessAdd == last.op = "AddBytes" /\ last.err = "" /\ Open(World, last.key).data = Content2

C2_Witness ==
  /\ last.op = "Remove" /\ last.err = ""
  /\ \E t \in trash : t.path[1] \o t.path[2] = last.key /\ t.data = Content1

\* C5: when the live tree holds a name of casDir that is no shard or an item
\* that is no digest suffix, an undisturbed Enumerate moves each such path
\* to the trash with its payload, sets the flag, sends no error and none of
\* these paths, sends every blob's digest once, and leaves every blob where
\* it was with its bytes.
C5_SelfHealing ==
  [][(last'.op = "Enumerate" /\ last'.full /\ Anomalies(World) # {})
       => /\ \A q \in Anomalies(World) :
               q \notin DOMAIN live' /\ [path |-> q, data |-> live[q]] \in trash'
          /\ needFsck'
          /\ ~HasError(last'.out)
          /\ {last'.out[i].Item : i \in 1..Len(last'.out)} = Blobs(World)
          /\ Len(last'.out) = Cardinality(Blobs(World))
          /\ \A q \in (DOMAIN live) \ Anomalies(World) :
               q \in DOMAIN live' /\ live'[q] = live[q]]_vars

C5_Witness ==
  /\ last.op = "Enumerate" /\ last.full /\ needFsck /\ ~last.flag0
  /\ Len(last.out) = 2 /\ Present(World, sha1Bytes(Content1))
  /\ [path |-> CorruptPath("item"), data |-> CorruptData] \in trash

\* A URL path of the form /<key> whose key is no digest.
InvalidUrl(urlPath) == urlPath # <<>> /\ urlPath[1] = "/" /\ ~IsDigest(Tail(urlPath))

\* C10: for a key that does not match ^[a-f0-9]{40}$, AddEntry, Open and
\* Remove return an error and ServeHTTP of /<key> answers with a 4xx status;
\* the live tree, the trash and the flag are unchanged.
C10_InvalidKeys ==
  [][((last'.op \in {"AddEntry", "Open", "Remove"} /\ ~IsDigest(last'.key))
        => (last'.err # "" /\ live' = live /\ trash' = trash /\ needFsck' = needFsck))
     /\ ((last'.op = "ServeHTTP" /\ InvalidUrl(last'.key))
        => (last'.code \in 400..499 /\ live' = live /\ trash' = trash /\ needFsck' = needFsck))]_vars

C10_Witness ==
  /\ last.op = "AddEntry" /\ last.key \in InvalidKeys /\ last.err = "open"
  /\ Blobs(World) # {}

C10_WitnessHttp == last.op = "ServeHTTP" /\ InvalidUrl(last.key) /\ last.code = 400

\* The digests a tree names: the Sha1 of each of its entries, at any depth.
RECURSIVE Leaves(_)
Leaves(entry) ==
  (IF entry.Sha1 # <<>> THEN {entry.Sha1} ELSE {})
    \cup UNION {Leaves(entry.Files[i]) : i \in 1..Len(entry.Files)}

\* The digests reachable from the valid records of the node store: each
\* one's root Entry digest and, when its tree loads, the digests it names.
Reachable(st) ==
  UNION {{n.Entry} \cup (IF LoadEntry(st, n.Entry).err = "" THEN Leaves(LoadEntry(st, n.Entry).entry) ELSE {})
           : n \in {m \in st.nodes : m.valid}}

\* C3: after a gc run, returned with or without an error, every blob that
\* was present before it and is reachable from a valid node record is still
\* present.
C3_GcSafety ==
  [][last'.op = "gc" => (Reachable(World) \cap Blobs(World)) \subseteq Blobs(World')]_vars

\* The statement of C3 for the runs whose two scans reached every name and
\* every record.
GcSafetyOfWholeScans ==
  [][(last'.op = "gc" /\ last'.full)
       => (Reachable(World) \cap Blobs(World)) \subseteq Blobs(World')]_vars

\* C4: after a gc run that returned no error, the blobs of the store are
\* those that were present before it and are reachable from a node record;
\* with no node record, none is left.
C4_GcCompleteness ==
  [][(last'.op = "gc" /\ last'.err = "")
       => /\ Blobs(World') = Blobs(World) \cap Reachable(World)
          /\ ({m \in nodes : m.valid} = {} => Blobs(World') = {})]_vars

\* The statement of C4 for the runs whose two scans reached every name and
\* every record.
GcCompletenessOfWholeScans ==
  [][(last'.op = "gc" /\ last'.err = "" /\ last'.full)
       => /\ Blobs(World') = Blobs(World) \cap Reachable(World)
          /\ ({m \in nodes : m.valid} = {} => Blobs(World') = {})]_vars

C7_FlagGating ==
  [][(last'.op = "gc" /\ needFsck)
       => /\ CommonFlag(World, FALSE) # ""
          /\ last'.err = "fsck needed"
          /\ World' = World]_vars

C7_Witness ==
  /\ last.op = "gc" /\ last.flag0 /\ last.err = "fsck needed"
  /\ Blobs(World) # {} /\ nodes = {}

\* The store after archiving tree 1 into an empty store: 3 blobs, 2 node
\* records.
Archived ==
  ArchiveData([live |-> NoFiles, trash |-> {}, needFsck |-> FALSE,
               nodes |-> {}, nodesTrash |-> {}], 1)

\* C8: with tree 1 archived and one corrupt blob injected, Enumerate reports
\* 4 items; after an fsck run Enumerate reports the 3 original blobs and the
\* node records are those of before.
C8_CorruptBlobScenario ==
  [][(/\ last'.op = "fsck" /\ last'.full
      /\ nodes = Archived.nodes
      /\ \E kind \in CorruptKinds : live = CorruptCas(Archived, kind).live)
       => /\ Len(EnumerateCasAsList(World).out) = 4
          /\ {EnumerateCasAsList(World').out[i].Item : i \in 1..Len(EnumerateCasAsList(World').out)}
               = Blobs(Archived)
          /\ Len(EnumerateCasAsList(World').out) = 3
          /\ nodes' = nodes]_vars

\* C9: an fsck run that reaches every name and every record while one
\* invalid record is in the node store moves exactly that record to the
\* trash of the node store, so that the store holds one record less, and
\* leaves every blob where it was with its bytes.
C9_CorruptNodeScenario ==
  [][(last'.op = "fsck" /\ last'.full /\ {m \in nodes : ~m.valid} # {})
       => /\ nodes' = {m \in nodes : m.valid}
          /\ Cardinality(nodes') = Cardinality(nodes) - 1
          /\ nodesTrash' = nodesTrash \cup {m \in nodes : ~m.valid}
          /\ Blobs(World') = Blobs(World)
          /\ \A hash \in Blobs(World) : Stored(World', hash) = Stored(World, hash)]_vars

C9_Witness ==
  /\ last.op = "fsck" /\ last.full /\ last.err = ""
  /\ CorruptNode \in nodesTrash /\ nodes = Archived.nodes
  /\ Cardinality(Blobs(World)) = 3

\* C12: no step destroys data.  Every payload of the live tree is, after the
\* step, still at its path with its bytes or in the trash under that path
\* with those bytes, and nothing leaves the trash; so a blob that was stored
\* is in the live tree or in the trash ever after.
C12_NoDataDestroyed ==
  [][/\ \A q \in DOMAIN live :
          \/ (q \in DOMAIN live' /\ live'[q] = live[q])
          \/ [path |-> q, data |-> live[q]] \in trash'
     /\ trash \subseteq trash']_vars

C12_Witness ==
  /\ last.op = "gc" /\ last.err = ""
  /\ ~Present(World, sha1Bytes(Content1))
  /\ [path |-> filePath(sha1Bytes(Content1)), data |-> Content1] \in trash

\* C13: the flag is unset in a new store; AddEntry, AddBytes, Open and
\* Remove, whether they succeed or fail, leave an unset flag unset; after
\* SetFsckBit the flag reads true and after ClearFsckBit it reads false.
C13_FlagState ==
  [][/\ (steps = 0 => ~GetFsckBit(World))
     /\ ((last'.op \in {"AddBytes", "AddEntry", "Open", "Remove"} /\ ~needFsck) => ~needFsck')
     /\ (last'.op = "SetFsckBit" => (GetFsckBit(World') /\ WarnIfFsckIsNeeded(World')))
     /\ (last'.op = "ClearFsckBit" => ~GetFsckBit(World'))]_vars

C13_Witness ==
  /\ last.op = "ClearFsckBit" /\ last.flag0 /\ ~GetFsckBit(World)
  /\ Blobs(World) # {}

\* A store as MakeCasTable leaves it: no file, no record, nothing in the
\* trash, the flag unset.
EmptyStore(st) ==
  /\ DOMAIN st.live = {} /\ st.trash = {} /\ ~st.needFsck
  /\ st.nodes = {} /\ st.nodesTrash = {}

\* C14: on an empty store an undisturbed Enumerate sends nothing, the
\* enumeration of the node store sends nothing, gc and fsck return no error,
\* and the store is empty with the flag unset afterwards.
C14_EmptyStore ==
  [][(EmptyStore(World) /\ last'.op \in {"Enumerate", "gc", "fsck"} /\ last'.full)
       => /\ last'.err = "" /\ last'.out = <<>>
          /\ EnumerateCasAsList(World).out = <<>>
          /\ NodesEnumerate(World, nodes, FALSE).out = <<>>
          /\ EmptyStore(World')]_vars

C14_Witness ==
  /\ last.op = "gc" /\ last.full /\ last.err = "" /\ steps = 3
  /\ EmptyStore(World)

\* C18: in a gc run that reached every name and every record, with every
\* node's tree loading and some digest of a tree absent from the store, the
\* run returns no error, leaves the flag unset unless the scan moved a badly
\* named entry, and moves to the trash only what was in the live tree: the
\* absent digest is not handed to Remove.
C18_DanglingTolerated ==
  [][(/\ last'.op = "gc" /\ last'.full /\ ~needFsck
      /\ \A n \in nodes : n.valid => LoadEntry(World, n.Entry).err = ""
      /\ Reachable(World) \ Blobs(World) # {})
       => /\ last'.err = ""
          /\ (Anomalies(World) = {} => ~needFsck')
          /\ \A t \in trash' \ trash : t.path \in DOMAIN live
          /\ Blobs(World') = Blobs(World) \cap Reachable(World)]_vars

C18_Witness ==
  /\ last.op = "gc" /\ last.full /\ last.err = "" /\ ~needFsck
  /\ nodes # {} /\ Reachable(World) \ Blobs(World) # {}
  /\ Present(World, sha1Bytes(TreeBlob1))

\* C20: after an AddEntry whose copy failed part-way, no blob is present
\* under the digest or the flag is set; and an AddEntry that reports
\* AlreadyExists while the flag is unset finds the whole content stored.
C20_NoSilentPartialBlob ==
  [][/\ (last'.op \in {"AddBytes", "AddEntry"} /\ last'.err = "copy")
          => (~Present(World', last'.key) \/ needFsck')
     /\ (last'.op \in {"AddBytes", "AddEntry"} /\ last'.err = "exist" /\ ~needFsck')
          => Stored(World', last'.key) = last'.data]_vars

\* The valid node records whose Entry tree does not load from the store.
Unloadable(st) == {n \in st.nodes : n.valid /\ LoadEntry(st, n.Entry).err # ""}

\* C15: a gc run in which an enumeration sent an error entry, or which
\* reached every record while the tree of some node does not load, returns
\* an error and leaves every blob where it was with its bytes.
C15_GcAbortsBeforeSweep ==
  [][(last'.op = "gc" /\ (last'.fault \/ (last'.full /\ Unloadable(World) # {})))
       => /\ last'.err # ""
          /\ Blobs(World') = Blobs(World)
          /\ \A hash \in Blobs(World) : Stored(World', hash) = Stored(World, hash)
          /\ \A t \in trash' \ trash : ~IsBlobPath(t.path)]_vars

C15_Witness ==
  /\ last.op = "gc" /\ last.full /\ ~last.flag0 /\ last.err = "notexist"
  /\ Unloadable(World) # {} /\ Cardinality(Blobs(World)) = 2

C15_WitnessScan ==
  /\ last.op = "gc" /\ last.fault /\ ~last.flag0
  /\ last.err = "Failed enumerating the CAS table" /\ Blobs(World) # {}

\* C16: a gc run one of whose enumerations was closed by the interruption
\* signal before it had reached everything removes no blob that is reachable
\* from a node record.
C16_CancellationDrivesNoSweep ==
  [][(last'.op = "gc" /\ ~last'.full /\ ~last'.fault /\ last'.unmovable = {})
       => \A hash \in Reachable(World) \cap Blobs(World) : Present(World', hash)]_vars

\* C17: a gc run in which the move of an orphan to the trash fails sets the
\* flag and returns an error; the orphans removed are those the sweep came
\* to before it, none after it; the next gc run is refused, and is not
\* refused once an undisturbed fsck has run.
C17_GcRemovalFailure ==
  [][(last'.op = "gc" /\ last'.unmovable # {} /\ ~needFsck)
       => /\ last'.err = "Internal error while removing"
          /\ GetFsckBit(World')
          /\ Blobs(World) \ Blobs(World') = last'.first
          /\ last'.unmovable \subseteq Blobs(World')
          /\ GcMain(World', RunInput(Undisturbed(World'), nodes', FALSE)).err = "fsck needed"
          /\ LET fixed == FsckMain(World', RunInput(Undisturbed(World'), nodes', FALSE)).st
             IN CommonFlag(fixed, FALSE) # "fsck needed"]_vars

C17_Witness ==
  /\ last.op = "gc" /\ last.err = "Internal error while removing" /\ needFsck
  /\ last.unmovable = {sha1Bytes(Content1)} /\ last.first = {sha1Bytes(Content2)}
  /\ Blobs(World) = {sha1Bytes(Content1)}

\* C11: when two AddEntry calls for one digest, absent from the store, have
\* both returned and no copy failed, one returned nil and the other
\* AlreadyExists, and the store holds one blob under the digest, with the
\* bytes of the source.
C11_ConcurrentAddEntry ==
  \A p \in Procs : \A q \in Procs \ {p} :
    (/\ calls[p].pc = "done" /\ calls[q].pc = "done"
     /\ calls[p].hash = calls[q].hash
     /\ calls[p].err # "copy" /\ calls[q].err # "copy")
      => /\ {calls[p].err, calls[q].err} = {"", "exist"}
         /\ Present(World, calls[p].hash)
         /\ Stored(World, calls[p].hash) = calls[p].source
         /\ Cardinality({path \in DOMAIN live : Len(path) = 2 /\ path[1] \o path[2] = calls[p].hash}) = 1

C11_Witness ==
  /\ calls[1].pc = "done" /\ calls[2].pc = "done"
  /\ calls[1].hash = sha1Bytes(Content1) /\ calls[2].hash = sha1Bytes(Content1)
  /\ calls[1].err = "exist" /\ calls[2].err = ""
  /\ Stored(World, sha1Bytes(Content1)) = Content1

\* C19: every entry an Enumerate sends without an error is a string matching
\* ^[a-f0-9]{40}$ under which Open succeeds and the blob reads to its end,
\* whatever the layout of casDir.
C19_EnumerateKeyInvariant ==
  [][last'.op = "Enumerate"
       => \A i \in 1..Len(last'.out) :
            last'.out[i].Error = ""
              => /\ IsDigest(last'.out[i].Item)
                 /\ Open(World, last'.out[i].Item).err = ""
                 /\ Open(World', last'.out[i].Item).err = ""]_vars

\* The statement of C19 without the read: every entry sent without an error
\* matches the pattern and names an entry of its shard directory.
EmittedEntriesAreNamedLikeDigests ==
  [][last'.op = "Enumerate"
       => \A i \in 1..Len(last'.out) :
            last'.out[i].Error = ""
              => /\ IsDigest(last'.out[i].Item)
                 /\ Open(World', last'.out[i].Item).err \in {"", "isdir"}]_vars

\* The entries of a drained enumeration that carry an error.
ErrorEntries(out) == {i \in 1..Len(out) : out[i].Error # ""}

\* C21: when the directories of some shards cannot be read during an
\* Enumerate that is not interrupted, the entries sent hold one error entry
\* per such shard, the consistency flag is set afterwards, no item of such a
\* shard is sent, and every item of every other shard whose names are those
\* of a digest is sent.
C21_ShardReadError ==
  [][(last'.op = "Enumerate" /\ last'.failing # {})
       => /\ Cardinality(ErrorEntries(last'.out)) = Cardinality(last'.failing)
          /\ needFsck'
          /\ \A i \in 1..Len(last'.out) :
               last'.out[i].Error = ""
                 => SubSeq(last'.out[i].Item, 1, splitAt) \notin last'.failing
          /\ \A q \in DOMAIN live :
               (IsBlobPath(q) /\ q[1] \notin last'.failing)
                 => Count(last'.out, CasEntry(q[1] \o q[2], "")) = 1]_vars

\* An Enumerate met one unreadable shard that holds a blob, while another
\* shard holds a blob too, and sent the error entry and the other blob.
C21_Witness ==
  /\ last.op = "Enumerate"
  /\ last.failing = {SubSeq(sha1Bytes(Content1), 1, splitAt)}
  /\ Present(World, sha1Bytes(Content1))
  /\ Present(World, sha1Bytes(TreeBlob1))
  /\ Cardinality(ErrorEntries(last.out)) = 1
  /\ Count(last.out, CasEntry(sha1Bytes(TreeBlob1), "")) = 1
  /\ needFsck

\* The steps of the goroutine, drained and not interrupted, send what
\* Enumerate computes and leave the store it leaves.
ScanAgreesWithEnumerate ==
  (scan.closed /\ scan.consumer = "drain" /\ ~scan.interrupted)
    => LET r == Enumerate(scan.start, TopNames(scan.start) \cup {TrashName},
                          scan.failing, scan.rootErr)
       IN scan.received = r.out /\ World = r.st

C22_WitnessInterrupted ==
  /\ scan.closed /\ scan.interrupted /\ scan.received = <<>>
  /\ Blobs(World) # {}

\* C23: when the consumer has stopped receiving before the close, as gc does
\* on the first error entry, the goroutine of Enumerate is not left at a send
\* for ever: it ends and closes the channel.
C23_EarlyStoppingConsumer ==
  (scan.cpc = "returned" /\ ~scan.closed) ~> scan.closed

\* What holds instead: once the consumer has returned, a goroutine that
\* reaches a send stays there, and the channel stays open.
BlockedSendIsForEver ==
  [][(scan.cpc = "returned" /\ scan.pc \in {"senderr", "senditem"})
       => (scan'.pc = scan.pc /\ ~scan'.closed)]_vars

\* The goroutine is at the send of a blob after gc returned on the error
\* entry of another shard.
BlockedSendReached ==
  scan.cpc = "returned" /\ scan.pc = "senditem" /\ ~scan.closed

\* The names of the 16^splitAt shards: every string of splitAt hex digits.
AllShardNames == {s \in [1..splitAt -> HexLower] : TRUE}

\* TestPrefixSpace: the sizes of the prefix spaces and the name of the last
\* shard of each.
PrefixSpaceTable ==
  /\ prefixSpace(0) = 0 /\ prefixSpace(1) = 16 /\ prefixSpace(2) = 256
  /\ prefixSpace(3) = 4096 /\ prefixSpace(4) = 65536
  /\ FormatHex(1, 15) = <<"f">> /\ FormatHex(2, 255) = <<"f", "f">>
  /\ FormatHex(3, 4095) = <<"f", "f", "f">> /\ FormatHex(3, 10) = <<"0", "0", "a">>

\* C24: whenever MakeCasTable has returned the table, all 16^splitAt shard
\* directories are in casDir, also when casDir was left by an earlier
\* MakeCasTable that was stopped before it made them all; and AddEntry of a
\* valid digest that is absent does not fail.
C24_ShardsExist ==
  /\ root.table = "up" => ShardDirs(root) = AllShardNames
  /\ (last.op = "AddBytes" /\ last.kind = "absent") => last.err = ""

\* What holds instead: the MakeCasTable that makes casDir itself and returns
\* the table has made every shard.
ShardsExistAfterFirstInit ==
  [][(last'.op = "MakeCasTable" /\ last'.err = "" /\ ~root.cas)
       => (ShardDirs(root') = AllShardNames /\ Cardinality(ShardDirs(root')) = prefixSpace(splitAt))]_vars

\* An AddBytes of an absent blob failed on a table MakeCasTable returned.
MissingShardReached ==
  /\ root.table = "up" /\ last.op = "AddBytes" /\ last.kind = "absent" /\ last.err = "open"
  /\ root.made = 2748

====
